---- MODULE Spec2Model ----
(***************************************************************************)
(* HealthAI record-management API: the route handlers over the hosted      *)
(* store (users, health_records, medical_records, anemia_analyses) and the *)
(* patient dashboard's derived views.                                      *)
(*                                                                         *)
(* Every `await supabase...` of a handler is one atomic step on the store; *)
(* between two steps of one request the steps of other requests may run.   *)
(***************************************************************************)
EXTENDS Integers, Sequences, FiniteSets, TLC

\* ------------------------------------------------------------------ bounds
NumSlots == 2      \* requests that can be in flight at the same time
MaxReqs == 3       \* requests started in one behaviour
MaxClock == 1      \* last instant of the store's clock
MaxRows == 2       \* rows the record tables hold together
MaxList == 2       \* records in a list the dashboard fetched
MaxApi == 2        \* state-changing requests when the whole API is served
MaxPosts == 2      \* POSTs of the add-record form that can be pending together

\* ------------------------------------------------------- absent JSON values
NULL == "null"     \* null / undefined of a string-valued field
NoTime == -1       \* null timestamp
NoNum == -1        \* null / undefined of a number-valued field
NoBody == [none |-> TRUE]

Slots == 1..NumSlots

\* ------------------------------------------------------------ input domains
Wallets == {"w1", "w2"}

Profiles ==
  { [name |-> "n1", email |-> "e1", role |-> "patient",
     specialization |-> NULL, license_number |-> NULL, hospital |-> NULL],
    [name |-> "n2", email |-> "e2", role |-> "doctor",
     specialization |-> "s2", license_number |-> "l2", hospital |-> "h2"],
    [name |-> "n3", email |-> "e3", role |-> "admin",
     specialization |-> NULL, license_number |-> NULL, hospital |-> NULL] }

\* bodies of POST /users: each address with a patient profile and with a
\* profile of another role
UserBodies ==
  { b \in { [wallet_address |-> w, name |-> p.name, email |-> p.email,
             role |-> p.role, specialization |-> p.specialization,
             license_number |-> p.license_number, hospital |-> p.hospital] :
           w \in Wallets, p \in Profiles } :
    b.role = "patient" \/ (b.role = "doctor") = (b.wallet_address = "w1") }

\* ?wallet_address= of GET /users: absent, empty, or an address
WalletQueries == { [wallet_address |-> q] : q \in {NULL, ""} \cup Wallets }

\* the path parameter of GET /users/{wallet}
WalletParams == { [wallet |-> w] : w \in Wallets }

LoginBodies == { [wallet_address |-> w] : w \in Wallets \cup {NULL} }

Patients == {"p1", "p2"}

\* ?patient_id= of a list request: absent, empty, or a patient
Queries == {NULL, ""} \cup Patients

ListBodies == { [patient_id |-> q] : q \in Queries }

\* bodies of POST /health-records: no vitals, some, all; patient_id missing
HealthBodies ==
  { [patient_id |-> "p1", heart_rate |-> NoNum, blood_pressure |-> NULL,
     temperature |-> NoNum, weight |-> NoNum, height |-> NoNum],
    [patient_id |-> "p2", heart_rate |-> 75, blood_pressure |-> NULL,
     temperature |-> NoNum, weight |-> NoNum, height |-> NoNum],
    [patient_id |-> "p1", heart_rate |-> 75, blood_pressure |-> "120/80",
     temperature |-> 365, weight |-> 70, height |-> 175],
    [patient_id |-> NULL, heart_rate |-> 75, blood_pressure |-> "120/80",
     temperature |-> 365, weight |-> 70, height |-> 175] }

\* bodies of POST /medical-records: complete, title missing, record_type missing
MedicalBodies ==
  { [patient_id |-> p[1], doctor_id |-> p[1], record_type |-> p[2], title |-> p[3],
     description |-> "d", file_name |-> NULL, file_size |-> NoNum,
     ipfs_hash |-> NULL] :
    p \in { <<"p1", "lab_results", "t1">>, <<"p2", "lab_results", "t1">>,
            <<"p1", NULL, "t1">>, <<"p2", "lab_results", NULL>> } }

\* multipart form of POST /anemia-detection; image is the length of the
\* file's base64 text, NoNum when the part is missing; analysis_type is any
\* string the client sends
AnemiaForms ==
  { [image |-> 8, analysis_type |-> "eye_anemia", patient_id |-> "p1"],
    [image |-> 1004, analysis_type |-> "skin_cancer", patient_id |-> "p2"],
    [image |-> NoNum, analysis_type |-> "eye_anemia", patient_id |-> "p1"],
    [image |-> 8, analysis_type |-> NULL, patient_id |-> "p1"],
    [image |-> 8, analysis_type |-> "eye_anemia", patient_id |-> NULL] }

\* values of Math.random(), in hundredths
Randoms == {50, 99}

\* vitals of a fetched health record; temperature in tenths of a degree
HeartRates == {NoNum, 59, 60, 100, 101}

Temperatures == {NoNum, 359, 360, 375, 376}

SeqsUpTo(S, n) == UNION { [1..k -> S] : k \in 0..n }

FetchedHealth ==
  SeqsUpTo([heart_rate : HeartRates, temperature : Temperatures], MaxList)

FetchedMedical == SeqsUpTo([title : {"t1"}], MaxList)

FetchedAnemia == SeqsUpTo([prediction : {"Anemic", "Non-Anemic"}], MaxList)

\* what the user types into a text field of the add-record form
Titles == {"", "t1"}

Descriptions == {"", "d"}

\* the options of the record type select, and none chosen
RecordTypes == {"", "lab_results", "prescription"}

\* sizes in MB of the files the user picks
FileSizes == {1, 21}

\* codes of store failures other than row-not-found
StoreErrors == {"08006", "57014"}

VARIABLES
  users,      \* table users, in insertion order
  now,        \* the store's clock
  req,        \* per slot: the request being handled and its position
  done,       \* the request answered last, with its response
  started,    \* number of requests started so far
  hist,       \* per wallet address: what the served upserts did
  health,     \* table health_records, in insertion order
  medical,    \* table medical_records, in insertion order
  anemia,     \* table anemia_analyses, in insertion order
  dash,       \* the patient dashboard: its React state and what it renders
  form,       \* the add-record page: its React state and what it has sent
  page        \* the medical-records page: its React state

recVars == <<health, medical, anemia>>

srvVars == <<users, now, req, done, started, hist, health, medical, anemia>>

vars == <<users, now, req, done, started, hist, health, medical, anemia, dash, form, page>>

\* ------------------------------------------------------------ the gateway
\* a test for presence, which the empty string passes
Truthy_NotNull(v) == v # NULL

\* JS truthiness of a string-valued field
Truthy(v) == v # NULL /\ v # ""

\* indices of the rows of a table that satisfy .eq(col, val)
MatchIdx(table, col, val) == { i \in 1..Len(table) : table[i][col] = val }

\* .select().eq(col, val): the matching rows, in table order
SelectEq(table, col, val) ==
  SelectSeq(table, LAMBDA r : r[col] = val)

\* .single(): the row when exactly one row came back, else error PGRST116
Single(rows) ==
  IF Len(rows) = 1 THEN [data |-> rows, error |-> NULL]
  ELSE [data |-> <<>>, error |-> "PGRST116"]

Min(a, b) == IF a <= b THEN a ELSE b

\* all orders of the rows of a table
Perms(rows) ==
  { p \in [1..Len(rows) -> 1..Len(rows)] :
      \A i, j \in 1..Len(rows) : i # j => p[i] # p[j] }

\* the rows in an order of the store's choice
OrderDesc_Unordered(rows, key) ==
  { [i \in 1..Len(rows) |-> rows[p[i]]] : p \in Perms(rows) }

\* .order(key, { ascending: false }): the rows by key descending; the order
\* of rows with equal keys is the store's choice
OrderDesc(rows, key) ==
  { [i \in 1..Len(rows) |-> rows[p[i]]] : p \in
      { q \in Perms(rows) :
          \A i, j \in 1..Len(rows) : i < j => rows[q[i]][key] >= rows[q[j]][key] } }

\* the insert replaces the rows of the table
InsertRow_Replaces(table, row) == <<row>>

\* .insert([row]): the table with the row added
InsertRow(table, row) == Append(table, row)

\* ---------------------------------------------------------------- responses
Json(status, keys, error, data, message) ==
  [status |-> status, keys |-> keys, error |-> error, data |-> data,
   message |-> message, result |-> NoBody]

NoResp == Json(0, {}, NULL, <<>>, NULL)

\* NextResponse.json({ error: msg }, { status: st })
ErrorResp(st, msg) == Json(st, {"error"}, msg, <<>>, NULL)

\* the error string of each handler's catch block
CatchMessage(kind) ==
  CASE kind = "users_post" -> "Failed to create user"
    [] kind = "update_login" -> "Failed to update login"
    [] kind = "users_get" -> "Failed to fetch users"
    [] kind = "user_get" -> "Failed to fetch user"
    [] kind = "health_get" -> "Failed to fetch health records"
    [] kind = "health_post" -> "Failed to create health record"
    [] kind = "medical_get" -> "Failed to fetch medical records"
    [] kind = "medical_post" -> "Failed to create medical record"
    [] kind = "anemia_get" -> "Failed to fetch analyses"
    [] kind = "anemia_post" -> "Failed to analyze image"

IdleReq == [kind |-> "idle", pc |-> "idle", body |-> NoBody,
            seen |-> 0, ops |-> <<>>, resp |-> NoResp]

NewReq(kind, pc, body) ==
  [kind |-> kind, pc |-> pc, body |-> body,
   seen |-> 0, ops |-> <<>>, resp |-> NoResp]

\* slots are interchangeable: a new request takes the first free one
Free(s) ==
  /\ req[s].pc = "idle"
  /\ \A o \in Slots : o < s => req[o].pc # "idle"

Finish(r, rsp) == [r EXCEPT !.pc = "done", !.resp = rsp]

NoHist == [n |-> 0, first_created |-> NoTime, last |-> NoBody, prev |-> NoBody]

\* ------------------------------------------------------------ users: rows
ProfileOf(r) ==
  [name |-> r.name, email |-> r.email, role |-> r.role,
   specialization |-> r.specialization, license_number |-> r.license_number,
   hospital |-> r.hospital]

\* the insert path also records a login
NewUserRow_LoggedIn(body, id, t) ==
  [id |-> id, wallet_address |-> body.wallet_address, name |-> body.name,
   email |-> body.email, role |-> body.role,
   specialization |-> body.specialization,
   license_number |-> body.license_number, hospital |-> body.hospital,
   is_verified |-> (body.role = "patient"),
   created_at |-> t, last_login_at |-> t]

\* the row the insert path stores; id, created_at are the store's defaults
NewUserRow(body, id, t) ==
  [id |-> id, wallet_address |-> body.wallet_address, name |-> body.name,
   email |-> body.email, role |-> body.role,
   specialization |-> body.specialization,
   license_number |-> body.license_number, hospital |-> body.hospital,
   is_verified |-> (body.role = "patient"),
   created_at |-> t, last_login_at |-> NoTime]

\* the update path with created_at in its patch
UpdateUserRow_ResetsCreated(r, body, t) ==
  [r EXCEPT !.name = body.name, !.email = body.email, !.role = body.role,
            !.specialization = body.specialization,
            !.license_number = body.license_number,
            !.hospital = body.hospital,
            !.is_verified = (body.role = "patient"),
            !.created_at = t,
            !.last_login_at = t]

\* the update path with email missing from its patch
UpdateUserRow_KeepsEmail(r, body, t) ==
  [r EXCEPT !.name = body.name, !.role = body.role,
            !.specialization = body.specialization,
            !.license_number = body.license_number,
            !.hospital = body.hospital,
            !.is_verified = (body.role = "patient"),
            !.last_login_at = t]

\* the update path with is_verified missing from its patch
UpdateUserRow_KeepsVerified(r, body, t) ==
  [r EXCEPT !.name = body.name, !.email = body.email, !.role = body.role,
            !.specialization = body.specialization,
            !.license_number = body.license_number,
            !.hospital = body.hospital,
            !.last_login_at = t]

\* the update path replaces the row by a newly created one
UpdateUserRow_Reinserts(r, body, t) == NewUserRow(body, r.id + 1, t)

\* the patch of the update path applied to one row
UpdateUserRow(r, body, t) ==
  [r EXCEPT !.name = body.name, !.email = body.email, !.role = body.role,
            !.specialization = body.specialization,
            !.license_number = body.license_number,
            !.hospital = body.hospital,
            !.is_verified = (body.role = "patient"),
            !.last_login_at = t]

\* the patch of update-login applied to one row
\* the login update also restamps created_at
TouchRow_RestampsCreated(r, t) == [r EXCEPT !.last_login_at = t, !.created_at = t]

\* update({ last_login_at: new Date().toISOString() })
TouchRow(r, t) == [r EXCEPT !.last_login_at = t]

\* ------------------------------------------------------- the dashboard
\* the last element of the list instead of the first
getLatestVitals_Last(healthRecords) ==
  IF Len(healthRecords) = 0 THEN <<>> ELSE <<healthRecords[Len(healthRecords)]>>

\* healthRecords.length === 0 ? null : healthRecords[0]
getLatestVitals(healthRecords) ==
  IF Len(healthRecords) = 0 THEN <<>> ELSE <<healthRecords[1]>>

\* the score with +10 for every Non-Anemic analysis and no Math.min
calculateHealthScore_PerAnalysis(healthRecords, anemiaAnalyses) ==
  LET latestVitals == getLatestVitals(healthRecords)
      hr == IF latestVitals # <<>>
               /\ latestVitals[1].heart_rate # NoNum /\ latestVitals[1].heart_rate # 0
               /\ latestVitals[1].heart_rate >= 60 /\ latestVitals[1].heart_rate <= 100
            THEN 10 ELSE 0
      temp == IF latestVitals # <<>>
                 /\ latestVitals[1].temperature # NoNum /\ latestVitals[1].temperature # 0
                 /\ latestVitals[1].temperature >= 360 /\ latestVitals[1].temperature <= 375
              THEN 10 ELSE 0
      recentAnemia == IF latestVitals # <<>>
                      THEN 10 * Cardinality({ i \in 1..Len(anemiaAnalyses) :
                                  anemiaAnalyses[i].prediction = "Non-Anemic" })
                      ELSE 0
  IN 70 + hr + temp + recentAnemia

calculateHealthScore(healthRecords, anemiaAnalyses) ==
  LET latestVitals == getLatestVitals(healthRecords)
      hr == IF latestVitals # <<>>
               /\ latestVitals[1].heart_rate # NoNum /\ latestVitals[1].heart_rate # 0
               /\ latestVitals[1].heart_rate >= 60 /\ latestVitals[1].heart_rate <= 100
            THEN 10 ELSE 0
      temp == IF latestVitals # <<>>
                 /\ latestVitals[1].temperature # NoNum /\ latestVitals[1].temperature # 0
                 /\ latestVitals[1].temperature >= 360 /\ latestVitals[1].temperature <= 375
              THEN 10 ELSE 0
      recentAnemia == IF latestVitals # <<>>
                         /\ \E i \in 1..Len(anemiaAnalyses) :
                              anemiaAnalyses[i].prediction = "Non-Anemic"
                      THEN 10 ELSE 0
      score == 70 + hr + temp + recentAnemia
  IN IF score <= 100 THEN score ELSE 100

\* what the component renders from its state
\* the status rows with the anemia label shown only next to vitals
statusBadges_AnemiaNeedsVitals(latestVitals, medicalRecords, anemiaAnalyses) ==
  [vitals |-> IF latestVitals # <<>> THEN "Good" ELSE "No Data",
   checkup |-> IF Len(medicalRecords) > 0 THEN "Complete" ELSE "Pending",
   anemia |-> IF /\ latestVitals # <<>>
                 /\ \E i \in 1..Len(anemiaAnalyses) :
                      anemiaAnalyses[i].prediction = "Non-Anemic"
              THEN "Normal" ELSE "Check Needed"]

\* the three status rows of the Health Score card
statusBadges(latestVitals, medicalRecords, anemiaAnalyses) ==
  [vitals |-> IF latestVitals # <<>> THEN "Good" ELSE "No Data",
   checkup |-> IF Len(medicalRecords) > 0 THEN "Complete" ELSE "Pending",
   anemia |-> IF \E i \in 1..Len(anemiaAnalyses) :
                   anemiaAnalyses[i].prediction = "Non-Anemic"
              THEN "Normal" ELSE "Check Needed"]

\* nothing of the card is on the screen
NoBadges == [vitals |-> NULL, checkup |-> NULL, anemia |-> NULL]

Render(d) ==
  IF d.loading
  THEN [d EXCEPT !.screen = "spinner", !.latestVitals = <<>>, !.healthScore = NoNum,
                 !.badges = NoBadges]
  ELSE [d EXCEPT !.screen = "dashboard",
                 !.latestVitals = getLatestVitals(d.healthRecords),
                 !.healthScore = calculateHealthScore(d.healthRecords, d.anemiaAnalyses),
                 !.badges = statusBadges(getLatestVitals(d.healthRecords),
                                         d.medicalRecords, d.anemiaAnalyses)]

InitDash ==
  [pc |-> "mount", loading |-> TRUE, healthRecords |-> <<>>,
   medicalRecords |-> <<>>, anemiaAnalyses |-> <<>>,
   screen |-> "spinner", latestVitals |-> <<>>, healthScore |-> NoNum,
   badges |-> NoBadges]

\* useState of AddMedicalRecordPage, nothing sent yet
NoFields == [title |-> "", description |-> "", record_type |-> ""]

InitForm ==
  [loading |-> FALSE, formData |-> NoFields, selectedFile |-> NoNum,
   pending |-> 0, sent |-> NoBody, last |-> "mount"]

\* useState of MedicalRecordsPage
InitPage == [pc |-> "mount", loading |-> TRUE, records |-> <<>>]

\* ----------------------------------------------------------------- Init
Init ==
  /\ users = <<>>
  /\ now = 0
  /\ req = [s \in Slots |-> IdleReq]
  /\ done = IdleReq
  /\ started = 0
  /\ hist = [w \in Wallets |-> NoHist]
  /\ health = <<>>
  /\ medical = <<>>
  /\ anemia = <<>>
  /\ form = InitForm
  /\ page = InitPage
  /\ dash = InitDash

\* the handler of slot s returns response rsp
Answer(s, r, rsp) ==
  /\ req' = [req EXCEPT ![s] = IdleReq]
  /\ done' = Finish(r, rsp)

\* the update path without its return: the handler goes on to the insert
ReturnUpdated_FallsThrough(s, r, rsp) ==
  /\ req' = [req EXCEPT ![s] = [r EXCEPT !.pc = "insert"]]
  /\ UNCHANGED done

\* the update path throws after its update was applied
ReturnUpdated_Throws(s, r, rsp) == Answer(s, r, ErrorResp(500, CatchMessage(r.kind)))

\* return NextResponse.json({ success: true, user: updatedUser, ... })
ReturnUpdated(s, r, rsp) == Answer(s, r, rsp)

\* a handler with a single gateway call ran as a whole and answered
Answered(kind, body, ops, rsp) ==
  Finish([NewReq(kind, "call", body) EXCEPT !.ops = ops], rsp)

\* the 400 answer sent after a lookup
Reject_AfterLookup(kind, body, msg) ==
  Answered(kind, body, <<"select">>, ErrorResp(400, msg))

\* a required field is missing: the handler returns 400 before any gateway call
Reject(kind, body, msg) == Answered(kind, body, <<>>, ErrorResp(400, msg))

\* the catch block answers with the error it caught
FailResp_Leaks(kind, e) == ErrorResp(500, e)

\* catch (error): the answer is the handler's fixed message with status 500,
\* whatever the error e
FailResp(kind, e) == ErrorResp(500, CatchMessage(kind))

\* no response is waiting to be sent
Quiet == done.pc = "idle"

\* the response of the request answered last is sent to its client
Deliver ==
  /\ done.pc = "done"
  /\ done' = IdleReq
  /\ UNCHANGED <<users, now, req, started, hist, recVars, dash, form, page>>

\* the store's clock advances
Tick ==
  /\ Quiet
  /\ now < MaxClock
  /\ now' = now + 1
  /\ UNCHANGED <<users, req, done, started, hist, recVars, dash, form, page>>

\* ------------------------------------------------- POST /users (upsert)
StartUpsert(s) ==
  /\ Quiet
  /\ Free(s)
  /\ started < MaxReqs
  /\ \E b \in UserBodies : req' = [req EXCEPT ![s] = NewReq("users_post", "lookup", b)]
  /\ started' = started + 1
  /\ UNCHANGED <<users, now, done, hist, recVars, dash, form, page>>

\* select("*").eq("wallet_address", ...).single(); PGRST116 is not thrown
UpsertLookup(s) ==
  /\ Quiet
  /\ req[s].kind = "users_post"
  /\ req[s].pc = "lookup"
  /\ LET existingUser == Single(SelectEq(users, "wallet_address", req[s].body.wallet_address)).data
     IN req' = [req EXCEPT ![s].ops = Append(@, "select"),
                           ![s].seen = hist[req[s].body.wallet_address].n,
                           ![s].pc = IF existingUser # <<>> THEN "update" ELSE "insert"]
  /\ UNCHANGED <<users, now, done, started, hist, recVars, dash, form, page>>

\* update({...}).eq("wallet_address", ...).select().single()
UpsertUpdate(s) ==
  /\ Quiet
  /\ req[s].kind = "users_post"
  /\ req[s].pc = "update"
  /\ LET b == req[s].body
         idx == MatchIdx(users, "wallet_address", b.wallet_address)
         upd == [i \in 1..Len(users) |->
                   IF i \in idx THEN UpdateUserRow(users[i], b, now) ELSE users[i]]
         r == [req[s] EXCEPT !.ops = Append(@, "update")]
     IN IF Cardinality(idx) = 1
        THEN /\ users' = upd
             /\ ReturnUpdated(s, r, Json(200, {"success", "user", "message"}, NULL,
                                  SelectEq(upd, "wallet_address", b.wallet_address),
                                  "User profile updated successfully"))
             /\ hist' = [hist EXCEPT ![b.wallet_address] =
                  [@ EXCEPT !.n = @ + 1, !.last = ProfileOf(b), !.prev = hist[b.wallet_address].last]]
        ELSE \* not exactly one row: the statement is rolled back, updateError is thrown
             /\ Answer(s, r, ErrorResp(500, CatchMessage("users_post")))
             /\ UNCHANGED <<users, hist>>
  /\ UNCHANGED <<now, started, recVars, dash, form, page>>

\* insert([{...}]).select().single()
UpsertInsert(s) ==
  /\ Quiet
  /\ req[s].kind = "users_post"
  /\ req[s].pc = "insert"
  /\ LET b == req[s].body
         row == NewUserRow(b, Len(users) + 1, now)
         r == [req[s] EXCEPT !.ops = Append(@, "insert")]
     IN /\ users' = InsertRow(users, row)
        /\ Answer(s, r, Json(200, {"success", "user", "message"}, NULL, <<row>>,
                             "User created successfully"))
        /\ hist' = [hist EXCEPT ![b.wallet_address] =
             [n |-> @.n + 1,
              first_created |-> IF @.first_created = NoTime THEN now ELSE @.first_created,
              last |-> ProfileOf(b), prev |-> @.last]]
  /\ UNCHANGED <<now, started, recVars, dash, form, page>>

\* ------------------------------------------- POST /users/update-login
StartTouchLogin(s) ==
  /\ Quiet
  /\ Free(s)
  /\ started < MaxReqs
  /\ \E b \in LoginBodies :
       IF ~Truthy(b.wallet_address)
       THEN /\ done' = Reject("update_login", b, "Wallet address is required")
            /\ UNCHANGED req
       ELSE /\ req' = [req EXCEPT ![s] = NewReq("update_login", "touch", b)]
            /\ UNCHANGED done
  /\ started' = started + 1
  /\ UNCHANGED <<users, now, hist, recVars, dash, form, page>>

\* update({ last_login_at }).eq("wallet_address", ...).select().single()
TouchLogin(s) ==
  /\ Quiet
  /\ req[s].kind = "update_login"
  /\ req[s].pc = "touch"
  /\ LET b == req[s].body
         idx == MatchIdx(users, "wallet_address", b.wallet_address)
         upd == [i \in 1..Len(users) |->
                   IF i \in idx THEN TouchRow(users[i], now) ELSE users[i]]
         r == [req[s] EXCEPT !.ops = Append(@, "update")]
     IN IF Cardinality(idx) = 1
        THEN /\ users' = upd
             /\ Answer(s, r, Json(200, {"success", "user"}, NULL,
                                  SelectEq(upd, "wallet_address", b.wallet_address), NULL))
        ELSE /\ Answer(s, r, ErrorResp(500, CatchMessage("update_login")))
             /\ UNCHANGED users
  /\ UNCHANGED <<now, started, hist, recVars, dash, form, page>>

\* ------------------------------------------- GET /users, GET /users/{wallet}
\* Each of these handlers issues one gateway call.
\* every error of the lookup is thrown
Thrown_AnyError(res) == res.error # NULL

\* if (error && error.code !== "PGRST116") throw error
Thrown(res) == res.error # NULL /\ res.error # "PGRST116"

\* the answer of a lookup by wallet address: the user, or null
UserResp(kind, res) ==
  IF Thrown(res) THEN FailResp(kind, res.error)
  ELSE Json(200, {"success", "user"}, NULL, res.data, NULL)

\* GET /users: one user by wallet address, or all users by created_at
\* descending
UsersGet ==
  /\ Quiet
  /\ \E q \in WalletQueries :
       IF Truthy(q.wallet_address)
       THEN done' = Answered("users_get", q, <<"select">>,
              UserResp("users_get",
                       Single(SelectEq(users, "wallet_address", q.wallet_address))))
       ELSE \E all \in OrderDesc(users, "created_at") :
              done' = Answered("users_get", q, <<"select">>,
                               Json(200, {"success", "users"}, NULL, all, NULL))
  /\ UNCHANGED <<users, now, req, started, hist, recVars, dash, form, page>>

\* GET /users/{wallet}
UserByWallet ==
  /\ Quiet
  /\ \E p \in WalletParams :
       done' = Answered("user_get", p, <<"select">>,
         UserResp("user_get", Single(SelectEq(users, "wallet_address", p.wallet))))
  /\ UNCHANGED <<users, now, req, started, hist, recVars, dash, form, page>>

\* ------------------------------------------------------ store failures
\* the select of GET /users or GET /users/{wallet} fails with an error other
\* than PGRST116
UserReadFail ==
  /\ Quiet
  /\ \E e \in StoreErrors :
       \/ \E q \in WalletQueries :
            done' = Answered("users_get", q, <<"failed">>, FailResp("users_get", e))
       \/ \E p \in WalletParams :
            done' = Answered("user_get", p, <<"failed">>, FailResp("user_get", e))
  /\ UNCHANGED <<users, now, req, started, hist, recVars, dash, form, page>>

\* the gateway call a user-service request is about to issue fails with an
\* error other than PGRST116; the handler throws into its catch block
UserGatewayFail(s) ==
  /\ Quiet
  /\ req[s].pc \in {"lookup", "update", "insert", "touch"}
  /\ \E e \in StoreErrors :
       Answer(s, [req[s] EXCEPT !.ops = Append(@, "failed")],
              FailResp(req[s].kind, e))
  /\ UNCHANGED <<users, now, started, hist, recVars, dash, form, page>>

\* ---------------------------------------------------- record services
\* Each record handler issues one gateway call, so a whole handler is one
\* atomic step on the store.
RowCount == Len(health) + Len(medical) + Len(anemia)

\* the list query without its .eq("patient_id", ...)
ListQuery_NoFilter(table, key, patientId) ==
  OrderDesc(table, key)

\* the list query with .eq("patient_id", ...) applied unconditionally
ListQuery_AlwaysFilters(table, key, patientId) ==
  OrderDesc(SelectEq(table, "patient_id", patientId), key)

\* the query of a list handler: order, then .eq("patient_id", ...) when the
\* parameter is truthy
ListQuery(table, key, patientId) ==
  OrderDesc(IF Truthy(patientId) THEN SelectEq(table, "patient_id", patientId)
            ELSE table, key)

\* GET /health-records
HealthGet ==
  /\ Quiet
  /\ \E b \in ListBodies : \E records \in ListQuery(health, "recorded_at", b.patient_id) :
       done' = Answered("health_get", b, <<"select">>,
                        Json(200, {"success", "records"}, NULL, records, NULL))
  /\ UNCHANGED <<users, now, req, started, hist, recVars, dash, form, page>>

NewHealthRow(body, id, t) ==
  [id |-> id, patient_id |-> body.patient_id, heart_rate |-> body.heart_rate,
   blood_pressure |-> body.blood_pressure, temperature |-> body.temperature,
   weight |-> body.weight, height |-> body.height, recorded_at |-> t]

\* POST /health-records
HealthPost ==
  /\ Quiet
  /\ RowCount < MaxRows
  /\ \E b \in HealthBodies :
       LET record == NewHealthRow(b, Len(health) + 1, now)
       IN /\ health' = InsertRow(health, record)
          /\ done' = Answered("health_post", b, <<"insert">>,
                               Json(200, {"success", "record"}, NULL, <<record>>, NULL))
  /\ UNCHANGED <<users, now, req, started, hist, medical, anemia, dash, form, page>>

\* GET /medical-records
MedicalGet ==
  /\ Quiet
  /\ \E b \in ListBodies : \E records \in ListQuery(medical, "created_at", b.patient_id) :
       done' = Answered("medical_get", b, <<"select">>,
                        Json(200, {"success", "records"}, NULL, records, NULL))
  /\ UNCHANGED <<users, now, req, started, hist, recVars, dash, form, page>>

\* the medical row with title taken from the description
NewMedicalRow_TitleFromDescription(body, id, t) ==
  [id |-> id, patient_id |-> body.patient_id, doctor_id |-> body.doctor_id,
   record_type |-> body.record_type, title |-> body.description,
   description |-> body.description, file_name |-> body.file_name,
   file_size |-> body.file_size, ipfs_hash |-> body.ipfs_hash,
   created_at |-> t]

NewMedicalRow(body, id, t) ==
  [id |-> id, patient_id |-> body.patient_id, doctor_id |-> body.doctor_id,
   record_type |-> body.record_type, title |-> body.title,
   description |-> body.description, file_name |-> body.file_name,
   file_size |-> body.file_size, ipfs_hash |-> body.ipfs_hash,
   created_at |-> t]

\* POST /medical-records
MedicalPost ==
  /\ Quiet
  /\ RowCount < MaxRows
  /\ \E b \in MedicalBodies :
       LET record == NewMedicalRow(b, Len(medical) + 1, now)
       IN /\ medical' = InsertRow(medical, record)
          /\ done' = Answered("medical_post", b, <<"insert">>,
                               Json(200, {"success", "record"}, NULL, <<record>>, NULL))
  /\ UNCHANGED <<users, now, req, started, hist, health, anemia, dash, form, page>>

\* GET /anemia-detection
AnemiaGet ==
  /\ Quiet
  /\ \E b \in ListBodies : \E analyses \in ListQuery(anemia, "created_at", b.patient_id) :
       done' = Answered("anemia_get", b, <<"select">>,
                        Json(200, {"success", "analyses"}, NULL, analyses, NULL))
  /\ UNCHANGED <<users, now, req, started, hist, recVars, dash, form, page>>

\* the validation with only the patient reference required
AnemiaMissing_PatientOnly(f) ==
  ~Truthy(f.patient_id)

\* if (!image || !analysisType || !patientId)
AnemiaMissing(f) ==
  f.image = NoNum \/ ~Truthy(f.analysis_type) \/ ~Truthy(f.patient_id)

\* Math.random() > 0.5 ? "Anemic" : "Non-Anemic"
MockPrediction(r) == IF r > 50 THEN "Anemic" ELSE "Non-Anemic"

\* Math.random() * 40 + 60, in hundredths of a percent
MockConfidence(r) == r * 40 + 6000

\* base64Image.substring(0, 1000)
ImageKeep == 1000

\* the row with the whole base64 text of the image
NewAnemiaRow_WholeImage(f, prediction, confidence, id, t) ==
  [id |-> id, patient_id |-> f.patient_id, analysis_type |-> f.analysis_type,
   prediction |-> prediction, confidence |-> confidence, roi_detected |-> TRUE,
   image_data |-> f.image, created_at |-> t]

\* the row of the insert
NewAnemiaRow(f, prediction, confidence, id, t) ==
  [id |-> id, patient_id |-> f.patient_id, analysis_type |-> f.analysis_type,
   prediction |-> prediction, confidence |-> confidence, roi_detected |-> TRUE,
   image_data |-> Min(f.image, ImageKeep), created_at |-> t]

Recommendations(prediction) ==
  IF prediction = "Anemic"
  THEN <<"Consult with a hematologist", "Increase iron-rich foods in diet",
         "Consider iron supplements", "Regular blood tests recommended">>
  ELSE <<"Continue healthy diet", "Regular health checkups",
         "Monitor for any symptoms">>

WithResult(rsp, result) == [rsp EXCEPT !.result = result]

\* POST /anemia-detection
AnemiaPost ==
  /\ Quiet
  /\ \E f \in AnemiaForms :
       IF AnemiaMissing(f)
       THEN /\ done' = Reject("anemia_post", f, "Missing required fields")
            /\ UNCHANGED anemia
       ELSE /\ RowCount < MaxRows
            /\ \E r1, r2 \in Randoms :
                 LET mockPrediction == MockPrediction(r1)
                     mockConfidence == MockConfidence(r2)
                     analysis == NewAnemiaRow(f, mockPrediction, mockConfidence,
                                              Len(anemia) + 1, now)
                 IN /\ anemia' = InsertRow(anemia, analysis)
                    /\ done' = Answered("anemia_post", f, <<"insert">>,
                         WithResult(Json(200, {"success", "analysis", "result"},
                                         NULL, <<analysis>>, NULL),
                                    [prediction |-> mockPrediction,
                                     confidence |-> mockConfidence,
                                     roi_detected |-> TRUE,
                                     recommendations |-> Recommendations(mockPrediction)]))
  /\ UNCHANGED <<users, now, req, started, hist, health, medical, dash, form, page>>

\* the gateway call of a record handler fails; the handler throws into its
\* catch block
RecordGatewayFail ==
  /\ Quiet
  /\ \E e \in StoreErrors :
       \/ \E b \in ListBodies : \E k \in {"health_get", "medical_get", "anemia_get"} :
            done' = Answered(k, b, <<"failed">>, FailResp(k, e))
       \/ \E b \in HealthBodies :
            done' = Answered("health_post", b, <<"failed">>,
                             FailResp("health_post", e))
       \/ \E b \in MedicalBodies :
            done' = Answered("medical_post", b, <<"failed">>,
                             FailResp("medical_post", e))
       \/ \E f \in AnemiaForms :
            /\ ~AnemiaMissing(f)
            /\ done' = Answered("anemia_post", f, <<"failed">>,
                                FailResp("anemia_post", e))
  /\ UNCHANGED <<users, now, req, started, hist, recVars, dash, form, page>>

\* ------------------------------------------- dashboard: loadHealthData
\* loadHealthData starts: without a stored user it returns at once
LoadStart ==
  /\ dash.pc = "mount"
  /\ \E userData \in BOOLEAN :
       dash' = IF userData THEN [dash EXCEPT !.pc = "health"]
               ELSE Render([dash EXCEPT !.pc = "loaded", !.loading = FALSE])
  /\ UNCHANGED <<srvVars, form, page>>

\* fetch of /api/health-records answers; success is absent on an error body
LoadHealth ==
  /\ dash.pc = "health"
  /\ \/ \E records \in FetchedHealth :
          dash' = Render([dash EXCEPT !.pc = "medical", !.healthRecords = records])
     \/ dash' = [dash EXCEPT !.pc = "medical"]
  /\ UNCHANGED <<srvVars, form, page>>

LoadMedical ==
  /\ dash.pc = "medical"
  /\ \/ \E records \in FetchedMedical :
          dash' = Render([dash EXCEPT !.pc = "anemia", !.medicalRecords = records])
     \/ dash' = [dash EXCEPT !.pc = "anemia"]
  /\ UNCHANGED <<srvVars, form, page>>

\* the last fetch; the finally block clears loading
LoadAnemia ==
  /\ dash.pc = "anemia"
  /\ \/ \E analyses \in FetchedAnemia :
          dash' = Render([dash EXCEPT !.pc = "loaded", !.loading = FALSE,
                                      !.anemiaAnalyses = analyses])
     \/ dash' = Render([dash EXCEPT !.pc = "loaded", !.loading = FALSE])
  /\ UNCHANGED <<srvVars, form, page>>

\* a fetch or response.json() throws: catch, then finally
LoadThrows ==
  /\ dash.pc \in {"health", "medical", "anemia"}
  /\ dash' = Render([dash EXCEPT !.pc = "loaded", !.loading = FALSE])
  /\ UNCHANGED <<srvVars, form, page>>

\* ------------------------------------------- the add-record page
\* file.size > 20 * 1024 * 1024, in MB
FileLimit == 20

\* localStorage.getItem("healthai_user"): nothing, a user, or text that
\* JSON.parse rejects
UserData == {NULL, "user", "{"}

\* handleInputChange
handleInputChange ==
  /\ \/ \E v \in Titles : form' = [form EXCEPT !.formData.title = v]
     \/ \E v \in Descriptions : form' = [form EXCEPT !.formData.description = v]
     \/ \E v \in RecordTypes \ {""} : form' = [form EXCEPT !.formData.record_type = v]
  /\ UNCHANGED <<srvVars, dash, page>>

\* handleFileChange: a file over the limit is refused with a toast
handleFileChange ==
  /\ \E size \in FileSizes :
       form' = IF size > FileLimit THEN form ELSE [form EXCEPT !.selectedFile = size]
  /\ UNCHANGED <<srvVars, dash, page>>

\* the submit button is disabled whatever the loading flag
SubmitDisabled_IgnoresLoading(f) ==
  f.formData.title = "" \/ f.formData.record_type = ""

\* disabled={loading || !formData.title || !formData.record_type}
SubmitDisabled(f) ==
  f.loading \/ f.formData.title = "" \/ f.formData.record_type = ""

\* the JSON body of the POST
PostBody(f) ==
  [patient_id |-> "p1", doctor_id |-> "p1", title |-> f.formData.title,
   description |-> f.formData.description, record_type |-> f.formData.record_type,
   file_size |-> f.selectedFile, ipfs_hash |-> NULL]

\* the catch block leaves loading set
AfterPost_NoFinally(f, outcome) ==
  IF outcome = "success"
  THEN [f EXCEPT !.formData = NoFields, !.selectedFile = NoNum,
                 !.loading = FALSE, !.last = "success"]
  ELSE [f EXCEPT !.last = "failure"]

\* the rest of handleSubmit once the fetch has settled: the success branch
\* resets the form, every other outcome goes through catch; finally clears
\* loading
AfterPost(f, outcome) ==
  IF outcome = "success"
  THEN [f EXCEPT !.formData = NoFields, !.selectedFile = NoNum,
                 !.loading = FALSE, !.last = "success"]
  ELSE [f EXCEPT !.loading = FALSE, !.last = "failure"]

\* handleSubmit up to its fetch; without a stored user it returns, and text
\* that is not JSON throws, both through finally
handleSubmit ==
  /\ ~SubmitDisabled(form)
  /\ form.pending < MaxPosts
  /\ \E userData \in UserData :
       form' = CASE userData = NULL -> [form EXCEPT !.loading = FALSE, !.last = "nouser"]
                 [] userData = "{" -> AfterPost(form, "thrown")
                 [] OTHER -> [form EXCEPT !.loading = TRUE, !.pending = @ + 1,
                                          !.sent = PostBody(form), !.last = "posted"]
  /\ UNCHANGED <<srvVars, dash, page>>

\* the fetch of a pending POST settles: success, a body without success, or
\* a rejected fetch or response.json()
PostSettles ==
  /\ form.pending > 0
  /\ \E outcome \in {"success", "refused", "thrown"} :
       form' = [AfterPost(form, outcome) EXCEPT !.pending = @ - 1]
  /\ UNCHANGED <<srvVars, dash, page>>

\* ------------------------------------------- the medical-records page
\* loadMedicalRecords up to its fetch
PageLoadStart ==
  /\ page.pc = "mount"
  /\ \E userData \in UserData :
       page' = IF userData = "user" THEN [page EXCEPT !.pc = "fetch"]
               ELSE [page EXCEPT !.pc = "loaded", !.loading = FALSE]
  /\ UNCHANGED <<srvVars, dash, form>>

\* the fetch settles: the records are set on success, every other outcome
\* goes through catch; finally clears loading
PageLoadSettles ==
  /\ page.pc = "fetch"
  /\ \/ \E records \in FetchedMedical :
          page' = [page EXCEPT !.pc = "loaded", !.loading = FALSE, !.records = records]
     \/ page' = [page EXCEPT !.pc = "loaded", !.loading = FALSE]
  /\ UNCHANGED <<srvVars, dash, form>>

\* --------------------------------------------------------- specifications
FormNext ==
  \/ handleInputChange
  \/ handleFileChange
  \/ handleSubmit
  \/ PostSettles

FormSpec == Init /\ [][FormNext]_vars

\* The browser shows one page: the dashboard, the medical-records page or the
\* add-record page. A fetch that was started settles.
ClientDash == form = InitForm /\ page = InitPage /\ LoadStart

\* what the lists hold plays no part in the flags: they are short here
DashSettles ==
  /\ LoadHealth \/ LoadMedical \/ LoadAnemia \/ LoadThrows
  /\ Len(dash'.healthRecords) <= 1
  /\ Len(dash'.medicalRecords) <= 1
  /\ Len(dash'.anemiaAnalyses) <= 1

ClientPage == dash = InitDash /\ form = InitForm /\ PageLoadStart

ClientForm == dash = InitDash /\ page = InitPage /\ FormNext

ClientNext ==
  \/ ClientDash
  \/ DashSettles
  \/ ClientPage
  \/ PageLoadSettles
  \/ ClientForm

ClientSpec ==
  /\ Init
  /\ [][ClientNext]_vars
  /\ WF_vars(DashSettles)
  /\ WF_vars(PageLoadSettles)
  /\ WF_vars(PostSettles)

DashNext ==
  \/ LoadStart
  \/ LoadHealth
  \/ LoadMedical
  \/ LoadAnemia
  \/ LoadThrows

DashSpec == Init /\ [][DashNext]_vars

RecordNext ==
  \/ Deliver
  \/ Tick
  \/ HealthGet
  \/ HealthPost
  \/ MedicalGet
  \/ MedicalPost
  \/ AnemiaGet
  \/ AnemiaPost
  \/ RecordGatewayFail

RecordSpec == Init /\ [][RecordNext]_vars

UserNext ==
  \/ Deliver
  \/ Tick
  \/ \E s \in Slots : StartUpsert(s)
  \/ \E s \in Slots : UpsertLookup(s)
  \/ \E s \in Slots : UpsertUpdate(s)
  \/ \E s \in Slots : UpsertInsert(s)
  \/ \E s \in Slots : StartTouchLogin(s)
  \/ \E s \in Slots : TouchLogin(s)
  \/ \E s \in Slots : UserGatewayFail(s)

UserSpec == Init /\ [][UserNext]_vars

\* the same handlers when no two requests overlap: a request starts only
\* after the previous one was answered
NoneInFlight == \A s \in Slots : req[s].pc = "idle"

SeqStartUpsert(s) == NoneInFlight /\ StartUpsert(s)

SeqStartTouchLogin(s) == NoneInFlight /\ StartTouchLogin(s)

UserSeqNext ==
  \/ Deliver
  \/ Tick
  \/ \E s \in Slots : SeqStartUpsert(s)
  \/ \E s \in Slots : UpsertLookup(s)
  \/ \E s \in Slots : UpsertUpdate(s)
  \/ \E s \in Slots : UpsertInsert(s)
  \/ \E s \in Slots : SeqStartTouchLogin(s)
  \/ \E s \in Slots : TouchLogin(s)
  \/ \E s \in Slots : UserGatewayFail(s)

UserSeqSpec == Init /\ [][UserSeqNext]_vars

\* The whole API, one request at a time: every handler of the user service
\* and of the record services, with at most MaxApi state-changing requests,
\* the record requests naming no patient but p1.
ApiBudget == NoneInFlight /\ started + RowCount < MaxApi

ApiRequest(b) == "patient_id" \in DOMAIN b => b.patient_id \in {NULL, "", "p1"}

ApiTick == ApiBudget /\ Tick

ApiStartUpsert(s) == ApiBudget /\ StartUpsert(s)

ApiStartTouchLogin(s) == ApiBudget /\ StartTouchLogin(s)

ApiHealthPost == ApiBudget /\ HealthPost /\ ApiRequest(done'.body)

ApiMedicalPost == ApiBudget /\ MedicalPost /\ ApiRequest(done'.body)

ApiAnemiaPost == ApiBudget /\ AnemiaPost /\ ApiRequest(done'.body)

ApiUserRead == NoneInFlight /\ (UsersGet \/ UserByWallet \/ UserReadFail)

ApiRecordRead ==
  /\ NoneInFlight
  /\ HealthGet \/ MedicalGet \/ AnemiaGet
  /\ ApiRequest(done'.body)

ApiRecordFail == NoneInFlight /\ RecordGatewayFail /\ ApiRequest(done'.body)

ApiNext ==
  \/ Deliver
  \/ ApiTick
  \/ ApiUserRead
  \/ ApiRecordRead
  \/ ApiRecordFail
  \/ \E s \in Slots : ApiStartUpsert(s)
  \/ \E s \in Slots : UpsertLookup(s)
  \/ \E s \in Slots : UpsertUpdate(s)
  \/ \E s \in Slots : UpsertInsert(s)
  \/ \E s \in Slots : ApiStartTouchLogin(s)
  \/ \E s \in Slots : TouchLogin(s)
  \/ \E s \in Slots : UserGatewayFail(s)
  \/ ApiHealthPost
  \/ ApiMedicalPost
  \/ ApiAnemiaPost

ApiSpec == Init /\ [][ApiNext]_vars

Next == UserNext \/ RecordNext \/ DashNext \/ ApiNext \/ FormNext \/ ClientNext

Spec == Init /\ [][Next]_vars

\* ------------------------------------------------------------------ claims
RowsOf(w) == SelectEq(users, "wallet_address", w)

UpdateServed ==
  /\ done.kind = "users_post"
  /\ done.resp.status = 200
  /\ done.resp.message = "User profile updated successfully"

C2_OneRowPerWallet ==
  \A w \in Wallets : Len(RowsOf(w)) <= 1

C4_MissingFieldsRejected ==
  (/\ done.kind = "medical_post"
   /\ (~Truthy(done.body.title) \/ ~Truthy(done.body.record_type)))
  => (done.resp.status = 400 /\ done.ops = <<>>)

\* C5: a POST /medical-records body with title and record_type whose insert
\* the store performs is answered 200 with success and the new row; the table
\* grows by exactly that row, and its title and record_type are the body's.
C5_ValidCreateStoresInput ==
  [][ (/\ done'.kind = "medical_post"
       /\ done.kind = "idle"
       /\ Truthy(done'.body.title)
       /\ Truthy(done'.body.record_type)
       /\ done'.ops = <<"insert">>)
      => (/\ done'.resp.status = 200
          /\ "success" \in done'.resp.keys
          /\ Len(done'.resp.data) = 1
          /\ medical' = Append(medical, done'.resp.data[1])
          /\ done'.resp.data[1].title = done'.body.title
          /\ done'.resp.data[1].record_type = done'.body.record_type) ]_vars

\* a complete record was created and returned
C5_Witness ==
  /\ done.kind = "medical_post"
  /\ done.resp.status = 200
  /\ done.body.title = "t1"
  /\ done.body.record_type = "lab_results"
  /\ Len(medical) = 2
  /\ done.resp.data = <<medical[2]>>
  /\ medical[2].title = "t1"

\* C6: POST /health-records is accepted exactly when patient_id is present:
\* with patient_id it is never rejected as invalid, whichever vitals are
\* absent; without patient_id it is answered 400 and nothing is inserted.
C6_PatientIdRequired ==
  done.kind = "health_post" =>
    IF Truthy(done.body.patient_id)
    THEN done.resp.status # 400
    ELSE done.resp.status = 400 /\ done.ops = <<>>

\* C7, as stated: a POST /anemia-detection form that carries patient_id is
\* never rejected with the missing-field error.
C7_PatientIdSuffices ==
  (done.kind = "anemia_post" /\ Truthy(done.body.patient_id))
  => done.resp.status # 400

\* C7, amended: POST /anemia-detection is rejected with the missing-field
\* error (400) exactly when image, analysis_type or patient_id is missing; a
\* form carrying all three is never rejected so.
C7_ThreeFieldsRequired ==
  done.kind = "anemia_post" =>
    ((done.resp.status = 400 /\ done.resp.error = "Missing required fields")
     <=> (\/ done.body.image = NoNum
          \/ ~Truthy(done.body.analysis_type)
          \/ ~Truthy(done.body.patient_id)))

\* a form with image, analysis_type and patient_id was analysed and stored
C7_Witness ==
  /\ done.kind = "anemia_post"
  /\ done.resp.status = 200
  /\ done.body.image # NoNum
  /\ Truthy(done.body.analysis_type)
  /\ Truthy(done.body.patient_id)
  /\ Len(anemia) >= 1
  /\ done.resp.data = <<anemia[Len(anemia)]>>

ListKinds == {"health_get", "medical_get", "anemia_get"}

TableOf(kind) ==
  CASE kind = "health_get" -> health
    [] kind = "medical_get" -> medical
    [] kind = "anemia_get" -> anemia

KeyOf(kind) == IF kind = "health_get" THEN "recorded_at" ELSE "created_at"

Range(f) == { f[i] : i \in DOMAIN f }

\* C8: a served list request with patient_id = p returns, for each of the
\* three record types, exactly the stored rows whose patient_id is p, each
\* once, by recorded_at (health) or created_at (medical, anemia) descending.
C8_ListForPatient ==
  (/\ done.kind \in ListKinds
   /\ done.resp.status = 200
   /\ done.body.patient_id \in Patients)
  => LET data == done.resp.data
         own == { r \in Range(TableOf(done.kind)) : r.patient_id = done.body.patient_id }
     IN /\ Range(data) = own
        /\ Len(data) = Cardinality(own)
        /\ \A i, j \in 1..Len(data) :
             i < j => data[i][KeyOf(done.kind)] >= data[j][KeyOf(done.kind)]

\* the health records of p1 were listed while the table also holds a record
\* that is not p1's
C8_Witness ==
  /\ done.kind = "health_get"
  /\ done.resp.status = 200
  /\ done.body.patient_id = "p1"
  /\ Len(health) = 2
  /\ Len(done.resp.data) = 1
  /\ done.resp.data[1].patient_id = "p1"
  /\ \E i \in 1..2 : health[i].patient_id # "p1"

\* C9: a served list request without patient_id returns every stored row of
\* its record type, of every patient.
C9_ListAll ==
  (/\ done.kind \in ListKinds
   /\ done.resp.status = 200
   /\ done.body.patient_id = NULL)
  => /\ Range(done.resp.data) = Range(TableOf(done.kind))
     /\ Len(done.resp.data) = Len(TableOf(done.kind))

\* the medical records of two patients were listed together, newest first
C9_Witness ==
  /\ done.kind = "medical_get"
  /\ done.resp.status = 200
  /\ done.body.patient_id = NULL
  /\ Len(done.resp.data) = 2
  /\ done.resp.data[1].patient_id # done.resp.data[2].patient_id
  /\ done.resp.data[1].created_at > done.resp.data[2].created_at

Bonus(b) == IF b THEN 10 ELSE 0

\* C10: the rendered health score is min(100, 70 + 10 for a heart rate in
\* 60..100 + 10 for a temperature in 36.0..37.5 + 10 for some Non-Anemic
\* analysis), the third bonus being added whether or not a vitals record
\* exists.
C10_IndependentBonuses ==
  dash.screen = "dashboard" =>
    LET hs == dash.healthRecords
        hr == Len(hs) > 0 /\ hs[1].heart_rate >= 60 /\ hs[1].heart_rate <= 100
        temp == Len(hs) > 0 /\ hs[1].temperature >= 360 /\ hs[1].temperature <= 375
        nonAnemic == \E i \in 1..Len(dash.anemiaAnalyses) :
                        dash.anemiaAnalyses[i].prediction = "Non-Anemic"
    IN dash.healthScore = Min(100, 70 + Bonus(hr) + Bonus(temp) + Bonus(nonAnemic))


\* C11: the rendered health score lies in 70..100, and with the vitals held
\* fixed it does not decrease when one more Non-Anemic analysis is added to
\* the analyses, at the front or at the end of the list.
C11_ScoreRangeAndMonotone ==
  dash.screen = "dashboard" =>
    LET more == [prediction |-> "Non-Anemic"]
    IN /\ dash.healthScore >= 70
       /\ dash.healthScore <= 100
       /\ calculateHealthScore(dash.healthRecords, Append(dash.anemiaAnalyses, more))
            >= dash.healthScore
       /\ calculateHealthScore(dash.healthRecords, <<more>> \o dash.anemiaAnalyses)
            >= dash.healthScore
       /\ calculateHealthScore(dash.healthRecords, Append(dash.anemiaAnalyses, more))
            <= 100

\* vitals in range and two analyses, none Non-Anemic: the score is 90 and one
\* more Non-Anemic analysis raises it to the cap
C11_Witness ==
  /\ dash.screen = "dashboard"
  /\ Len(dash.healthRecords) > 0
  /\ Len(dash.anemiaAnalyses) = 2
  /\ dash.healthScore = 90
  /\ calculateHealthScore(dash.healthRecords,
       Append(dash.anemiaAnalyses, [prediction |-> "Non-Anemic"])) = 100

\* C12: a lookup by wallet address (GET /users?wallet_address=a, and
\* GET /users/a) that the store served while no row has address a answers
\* 200 with success true and user null: the store's zero-rows error is not
\* turned into an error response.
C12_AbsentUserIsNull ==
  \A a \in Wallets :
    ( /\ done.pc = "done"
      /\ done.ops = <<"select">>
      /\ \/ done.kind = "users_get" /\ done.body.wallet_address = a
         \/ done.kind = "user_get" /\ done.body.wallet = a
      /\ RowsOf(a) = <<>> )
    => /\ done.resp.status = 200
       /\ done.resp.keys = {"success", "user"}
       /\ done.resp.data = <<>>
       /\ done.resp.error = NULL

\* both lookups answered null for an absent address while another user is stored
C12_Witness ==
  /\ done.pc = "done"
  /\ done.kind = "user_get"
  /\ done.ops = <<"select">>
  /\ RowsOf(done.body.wallet) = <<>>
  /\ Len(users) = 1
  /\ done.resp.status = 200
  /\ done.resp.data = <<>>

\* a step in which a request of the given kind is answered
AnswerStep(kind) == done.pc = "idle" /\ done'.pc = "done" /\ done'.kind = kind

\* C13: answering POST /users/update-login changes nothing but last_login_at
\* of rows with the request's wallet address; a 200 answer means exactly one
\* such row existed and its last_login_at is now the current instant; the
\* update of an address with exactly one row is answered 200; for an address
\* with no row the answer is not 2xx and the table is unchanged.
C13_TouchLogin ==
  [][ AnswerStep("update_login") =>
        LET a == done'.body.wallet_address
            idx == MatchIdx(users, "wallet_address", a)
        IN /\ Len(users') = Len(users)
           /\ \A i \in 1..Len(users) :
                /\ users'[i] = [users[i] EXCEPT !.last_login_at = users'[i].last_login_at]
                /\ i \notin idx => users'[i] = users[i]
           /\ done'.resp.status = 200 =>
                /\ Cardinality(idx) = 1
                /\ \A i \in idx : /\ users'[i].last_login_at = now
                                  /\ done'.resp.data = <<users'[i]>>
           /\ (Cardinality(idx) = 1 /\ done'.ops = <<"update">>) =>
                done'.resp.status = 200
           /\ idx = {} => /\ done'.resp.status \notin 200..299
                          /\ users' = users
           /\ UNCHANGED <<recVars, hist>> ]_vars

\* a login was recorded at a later instant than the row's creation, next to
\* another user's row
C13_Witness ==
  /\ done.pc = "done"
  /\ done.kind = "update_login"
  /\ done.resp.status = 200
  /\ Len(users) = 2
  /\ done.resp.data[1].created_at < now
  /\ done.resp.data[1].last_login_at = now

\* C14: answering a POST /users that took the update path leaves the wallet
\* address, the id and created_at of every row as they were, adds and removes
\* no row, and changes no row of another wallet address.
C14_UpdateFrame ==
  [][ ( /\ AnswerStep("users_post")
        /\ Len(done'.ops) = 2
        /\ done'.ops[2] = "update" ) =>
        /\ Len(users') = Len(users)
        /\ \A i \in 1..Len(users) :
             /\ users'[i].wallet_address = users[i].wallet_address
             /\ users'[i].id = users[i].id
             /\ users'[i].created_at = users[i].created_at
             /\ users[i].wallet_address # done'.body.wallet_address =>
                  users'[i] = users[i] ]_vars

\* an update was served at a later instant than the row's creation and
\* changed the row's profile, next to another user's row
C14_Witness ==
  /\ done.pc = "done"
  /\ UpdateServed
  /\ Len(users) = 2
  /\ users[1].wallet_address # users[2].wallet_address
  /\ done.resp.data[1].created_at < now
  /\ done.resp.data[1].last_login_at = now
  /\ hist[done.body.wallet_address].prev # hist[done.body.wallet_address].last

PayloadKeys == {"user", "users", "record", "records", "analysis", "analyses", "result"}

\* C16: every response carries the success flag together with a payload key
\* or the error string, and a response with the error string has a status
\* outside 200..299.
C16_ResponseShape ==
  done.pc = "done" =>
    /\ "success" \in done.resp.keys
    /\ done.resp.keys \cap (PayloadKeys \cup {"error"}) # {}
    /\ "error" \in done.resp.keys => done.resp.status \notin 200..299

\* the answered request lacks a field its handler requires
MissingRequired(r) ==
  \/ r.kind = "update_login" /\ ~Truthy(r.body.wallet_address)
  \/ /\ r.kind = "anemia_post"
     /\ \/ r.body.image = NoNum
        \/ ~Truthy(r.body.analysis_type)
        \/ ~Truthy(r.body.patient_id)

\* C17: a POST /users/update-login without wallet_address and a POST
\* /anemia-detection without image, analysis_type or patient_id are answered
\* 400, and a request answered 400 has issued no gateway operation and leaves
\* every table as it was.
C17_RejectedBeforeGateway ==
  [][ ( /\ done.pc = "idle"
        /\ done'.pc = "done"
        /\ MissingRequired(done') \/ done'.resp.status = 400 ) =>
        /\ done'.resp.status = 400
        /\ done'.ops = <<>>
        /\ UNCHANGED <<users, health, medical, anemia>> ]_vars

\* a form without its image was rejected while the table holds an analysis
C17_Witness ==
  /\ done.pc = "done"
  /\ done.kind = "anemia_post"
  /\ done.body.image = NoNum
  /\ done.resp.status = 400
  /\ done.ops = <<>>
  /\ Len(anemia) = 1

\* the gateway call the answered request issued last failed in the store
StoreFailed(r) == r.pc = "done" /\ r.ops # <<>> /\ r.ops[Len(r.ops)] = "failed"

\* C18: a request whose gateway call failed with an error other than
\* row-not-found is answered 500 with the error string of its handler and
\* nothing else; the answer is the one the handler gives for every other
\* failure detail, and the detail is not in it.
C18_GenericFailure ==
  StoreFailed(done) =>
    /\ done.resp.status = 500
    /\ done.resp.keys = {"error"}
    /\ done.resp.error = CatchMessage(done.kind)
    /\ done.resp.error \notin StoreErrors
    /\ done.resp.data = <<>>
    /\ done.resp.message = NULL
    /\ done.resp.result = NoBody
    /\ \A e \in StoreErrors : done.resp = FailResp(done.kind, e)

\* the update of an upsert failed in the store after its lookup found the row
C18_Witness ==
  /\ done.pc = "done"
  /\ done.kind = "users_post"
  /\ done.ops = <<"select", "failed">>
  /\ Len(RowsOf(done.body.wallet_address)) = 1
  /\ done.resp.status = 500

\* the writes among the gateway operations a request has issued
Writes(ops) == { i \in 1..Len(ops) : ops[i] \in {"insert", "update"} }

\* the gateway operations of a request: at most one write, and nothing after
\* a failed call
OneWriteNoRetry(ops) ==
  /\ Cardinality(Writes(ops)) <= 1
  /\ \A i \in 1..Len(ops) : ops[i] = "failed" => i = Len(ops)

\* C19: every request, in flight or answered, has issued at most one write
\* and no gateway call after a failed one; a request whose call failed is
\* answered at once, with an error; the upsert issues its lookup and then one
\* update or one insert, and every other handler one gateway call at most.
C19_OneWriteNoRetry ==
  /\ OneWriteNoRetry(done.ops)
  /\ StoreFailed(done) => done.resp.status = 500 /\ "error" \in done.resp.keys
  /\ done.kind = "users_post" =>
       done.ops \in { <<"failed">>, <<"select", "failed">>,
                      <<"select", "update">>, <<"select", "insert">> }
  /\ done.kind \notin {"idle", "users_post"} => Len(done.ops) <= 1
  /\ \A s \in Slots :
       /\ OneWriteNoRetry(req[s].ops)
       /\ \A i \in 1..Len(req[s].ops) : req[s].ops[i] = "select"
       /\ req[s].kind = "update_login" => req[s].ops = <<>>

\* an upsert was served by its update alone: the table still holds one row
C19_Witness ==
  /\ done.pc = "done"
  /\ UpdateServed
  /\ done.ops = <<"select", "update">>
  /\ Len(users) = 1
  /\ started = 2

\* C20: no step removes a row from a table; every health, medical and anemia
\* row stays exactly as it was created, and every user row stays in place
\* under its id.
C20_NoDeleteNoRecordUpdate ==
  [][ /\ Len(users') >= Len(users)
      /\ Len(health') >= Len(health)
      /\ Len(medical') >= Len(medical)
      /\ Len(anemia') >= Len(anemia)
      /\ \A i \in 1..Len(health) : health'[i] = health[i]
      /\ \A i \in 1..Len(medical) : medical'[i] = medical[i]
      /\ \A i \in 1..Len(anemia) : anemia'[i] = anemia[i]
      /\ \A i \in 1..Len(users) : users'[i].id = users[i].id ]_vars

\* an analysis was created after a health record, which is still stored
C20_Witness ==
  /\ done.pc = "done"
  /\ done.kind = "anemia_post"
  /\ done.resp.status = 200
  /\ Len(anemia) = 1
  /\ Len(health) = 1
  /\ health[1].recorded_at < anemia[1].created_at

\* C21: every stored anemia analysis has analysis_type eye_anemia or
\* nail_anemia.
C21_AnalysisTypeInEnum ==
  \A i \in 1..Len(anemia) : anemia[i].analysis_type \in {"eye_anemia", "nail_anemia"}

\* C22: every stored anemia analysis has prediction Anemic or Non-Anemic,
\* confidence within 0..100 percent (indeed within 60..100), roi_detected
\* true and at most 1000 characters of image data; the result of a served
\* POST /anemia-detection carries the prediction and confidence of the row it
\* stored, roi_detected true, and the 4-item recommendations exactly when the
\* prediction is Anemic, the 3-item ones otherwise.
C22_AnalysisRowAndResult ==
  /\ \A i \in 1..Len(anemia) :
       /\ anemia[i].prediction \in {"Anemic", "Non-Anemic"}
       /\ anemia[i].confidence >= 0 /\ anemia[i].confidence <= 10000
       /\ anemia[i].confidence >= 6000
       /\ anemia[i].roi_detected = TRUE
       /\ anemia[i].image_data >= 0 /\ anemia[i].image_data <= 1000
  /\ (done.pc = "done" /\ done.kind = "anemia_post" /\ done.resp.status = 200) =>
       LET row == anemia[Len(anemia)]
           result == done.resp.result
       IN /\ done.resp.data = <<row>>
          /\ result.prediction = row.prediction
          /\ result.confidence = row.confidence
          /\ result.roi_detected = TRUE
          /\ Len(result.recommendations) = (IF row.prediction = "Anemic" THEN 4 ELSE 3)
          /\ (result.recommendations[1] = "Consult with a hematologist")
               = (row.prediction = "Anemic")
          /\ (result.recommendations[1] = "Continue healthy diet")
               = (row.prediction # "Anemic")

\* an Anemic analysis of an image longer than 1000 characters was stored and
\* answered, after a Non-Anemic one
C22_Witness ==
  /\ done.pc = "done"
  /\ done.kind = "anemia_post"
  /\ done.resp.status = 200
  /\ done.body.image > 1000
  /\ Len(anemia) = 2
  /\ anemia[1].prediction = "Non-Anemic"
  /\ anemia[2].prediction = "Anemic"
  /\ anemia[2].image_data = 1000
  /\ Len(done.resp.result.recommendations) = 4

\* C23: on the dashboard the vitals label is Good exactly when there is a
\* latest vitals record (else No Data), the checkup label is Complete exactly
\* when there is a medical record (else Pending), the anemia label is Normal
\* exactly when some analysis is Non-Anemic (else Check Needed); replacing any
\* one of the three inputs leaves the labels of the other two as they are.
C23_StatusBadges ==
  dash.screen = "dashboard" =>
    LET lv == dash.latestVitals
        med == dash.medicalRecords
        ana == dash.anemiaAnalyses
        b == dash.badges
    IN /\ b.vitals = (IF Len(dash.healthRecords) > 0 THEN "Good" ELSE "No Data")
       /\ b.checkup = (IF Len(med) >= 1 THEN "Complete" ELSE "Pending")
       /\ b.anemia = (IF "Non-Anemic" \in { ana[i].prediction : i \in 1..Len(ana) }
                      THEN "Normal" ELSE "Check Needed")
       /\ \A lv2 \in {<<>>, <<[heart_rate |-> 75, temperature |-> 365]>>} :
            /\ statusBadges(lv2, med, ana).checkup = b.checkup
            /\ statusBadges(lv2, med, ana).anemia = b.anemia
       /\ \A med2 \in FetchedMedical :
            /\ statusBadges(lv, med2, ana).vitals = b.vitals
            /\ statusBadges(lv, med2, ana).anemia = b.anemia
       /\ \A ana2 \in FetchedAnemia :
            /\ statusBadges(lv, med, ana2).vitals = b.vitals
            /\ statusBadges(lv, med, ana2).checkup = b.checkup

\* the dashboard shows Normal and Complete without any vitals
C23_Witness ==
  /\ dash.screen = "dashboard"
  /\ dash.healthRecords = <<>>
  /\ Len(dash.medicalRecords) = 1
  /\ Len(dash.anemiaAnalyses) = 2
  /\ dash.badges = [vitals |-> "No Data", checkup |-> "Complete", anemia |-> "Normal"]

\* C24: getLatestVitals applied to the records GET /health-records?patient_id=p
\* returned is absent when the list is empty, which is when p has no stored
\* record, and otherwise is the first element of the list, a stored record of
\* p whose recorded_at no other stored record of p exceeds, whatever the
\* vitals in the records.
C24_LatestVitals ==
  (/\ done.kind = "health_get"
   /\ done.resp.status = 200
   /\ done.body.patient_id \in Patients)
  => LET records == done.resp.data
         own == { r \in Range(health) : r.patient_id = done.body.patient_id }
         latestVitals == getLatestVitals(records)
     IN /\ (latestVitals = <<>>) = (records = <<>>)
        /\ (latestVitals = <<>>) = (own = {})
        /\ latestVitals # <<>> =>
             /\ latestVitals = <<records[1]>>
             /\ latestVitals[1] \in own
             /\ \A r \in own : r.recorded_at <= latestVitals[1].recorded_at

\* p1's two records were listed: the later one, which carries no vitals, is
\* the latest, ahead of the earlier one that carries them all
C24_Witness ==
  /\ done.kind = "health_get"
  /\ done.resp.status = 200
  /\ done.body.patient_id = "p1"
  /\ Len(done.resp.data) = 2
  /\ done.resp.data[1].recorded_at > done.resp.data[2].recorded_at
  /\ done.resp.data[1].heart_rate = NoNum
  /\ done.resp.data[2].heart_rate # NoNum
  /\ getLatestVitals(done.resp.data) = <<health[2]>>

\* C25: GET /users without wallet_address answers 200 with the key users and
\* every stored user row exactly once, by created_at descending.
C25_ListAllUsers ==
  (/\ done.pc = "done"
   /\ done.kind = "users_get"
   /\ done.body.wallet_address = NULL
   /\ done.ops = <<"select">>)
  => LET data == done.resp.data
     IN /\ done.resp.status = 200
        /\ done.resp.keys = {"success", "users"}
        /\ Len(data) = Len(users)
        /\ \A i \in 1..Len(users) :
             Cardinality({ j \in 1..Len(data) : data[j] = users[i] }) = 1
        /\ \A i, j \in 1..Len(data) :
             i < j => data[i].created_at >= data[j].created_at

\* two users created at different instants were listed, the later one first
C25_Witness ==
  /\ done.pc = "done"
  /\ done.kind = "users_get"
  /\ done.body.wallet_address = NULL
  /\ done.resp.status = 200
  /\ Len(users) = 2
  /\ users[1].created_at < users[2].created_at
  /\ done.resp.data = <<users[2], users[1]>>

\* C26: a table changes only in the step that answers a request with a 2xx
\* status: a request answered otherwise has changed no table, neither in the
\* step that answers it nor in an earlier step of its handler.
C26_ErrorsChangeNothing ==
  [][ <<users, health, medical, anemia>>' # <<users, health, medical, anemia>> =>
        /\ done.pc = "idle"
        /\ done'.pc = "done"
        /\ done'.resp.status \in 200..299 ]_vars

\* the update of an upsert failed in the store at a later instant than the
\* row's creation; the row is as the insert left it
C26_Witness ==
  /\ done.pc = "done"
  /\ done.kind = "users_post"
  /\ done.ops = <<"select", "failed">>
  /\ done.resp.status = 500
  /\ Len(users) = 1
  /\ users[1].created_at < now
  /\ users[1].last_login_at = NoTime
  /\ ProfileOf(users[1]) # ProfileOf(done.body)

\* C27: a list request with ?patient_id= (the empty string) is answered as
\* one without patient_id is: 200 with every stored row of its table, of every
\* patient, each once, newest first, for health records, medical records and
\* anemia analyses; GET /users?wallet_address= is answered with the list of all
\* users under the key users, not with one user.
C27_EmptyParameterIsAbsent ==
  /\ (/\ done.kind \in ListKinds
      /\ done.ops = <<"select">>
      /\ done.body.patient_id = "")
     => /\ done.resp.status = 200
        /\ done.resp.data \in OrderDesc(TableOf(done.kind), KeyOf(done.kind))
        /\ Len(done.resp.data) = Len(TableOf(done.kind))
        /\ done.resp.keys =
             {"success", IF done.kind = "anemia_get" THEN "analyses" ELSE "records"}
  /\ (/\ done.kind = "users_get"
      /\ done.ops = <<"select">>
      /\ done.body.wallet_address = "")
     => /\ done.resp.status = 200
        /\ done.resp.keys = {"success", "users"}
        /\ done.resp.data \in OrderDesc(users, "created_at")
        /\ Len(done.resp.data) = Len(users)

\* ?patient_id= listed the health record of p1 together with one that has no
\* patient
C27_Witness ==
  /\ done.kind = "health_get"
  /\ done.resp.status = 200
  /\ done.body.patient_id = ""
  /\ Len(done.resp.data) = 2
  /\ { done.resp.data[i].patient_id : i \in 1..2 } = {"p1", NULL}

\* C28: with requests that do not overlap, a user row appears only in the
\* step that answers an upsert by its insert path, with last_login_at null;
\* the last_login_at of a stored row changes only in the step that answers,
\* with 200, an upsert by its update path or an update-login for the row's
\* wallet address, and it becomes the instant of that step, which is not
\* earlier than the value it replaces.
C28_LastLoginHistory ==
  [][ \A i \in 1..Len(users') :
        IF i > Len(users)
        THEN /\ users'[i].last_login_at = NoTime
             /\ AnswerStep("users_post")
             /\ done'.ops = <<"select", "insert">>
        ELSE users'[i].last_login_at # users[i].last_login_at =>
               /\ \/ AnswerStep("users_post") /\ done'.ops = <<"select", "update">>
                  \/ AnswerStep("update_login") /\ done'.ops = <<"update">>
               /\ done'.resp.status = 200
               /\ done'.body.wallet_address = users[i].wallet_address
               /\ users'[i].last_login_at = now
               /\ users[i].last_login_at # NoTime =>
                    users'[i].last_login_at >= users[i].last_login_at ]_vars

\* a row created and updated at the first instant was touched by a login at a
\* later one
C28_Witness ==
  /\ done.pc = "done"
  /\ done.kind = "update_login"
  /\ done.resp.status = 200
  /\ started = 3
  /\ hist[done.body.wallet_address].n = 2
  /\ RowsOf(done.body.wallet_address)[1].created_at = 0
  /\ RowsOf(done.body.wallet_address)[1].last_login_at = now
  /\ now > 0

\* C29: once loadHealthData, loadMedicalRecords or handleSubmit has started,
\* the loading flag of its page is eventually false, on every path (no stored
\* user, a failed or thrown fetch, a success), given that each fetch that was
\* started settles.
C29_LoadingClears ==
  /\ (dash.pc # "mount") ~> ~dash.loading
  /\ (page.pc # "mount") ~> ~page.loading
  /\ (form.pending > 0) ~> (form.pending = 0 /\ ~form.loading)

\* a POST of the form failed and the form is usable again
C29_Witness ==
  /\ form.sent # NoBody
  /\ form.last = "failure"
  /\ form.pending = 0
  /\ ~form.loading

\* C30: the add-record form sends a POST only from an enabled submit button
\* (title and record_type not empty, nothing in flight) and with a stored
\* user, so no body has an empty title or record_type and at most one POST is
\* pending; the body carries the fields as they were; the fields and the file
\* are reset when a POST succeeds and are kept when it fails or no user is
\* stored.
C30_SubmitDiscipline ==
  [][ /\ form'.pending <= 1
      /\ form'.sent # form.sent => form'.pending > form.pending
      /\ form'.pending > form.pending =>
            /\ form.pending = 0
            /\ ~form.loading
            /\ form.formData.title # ""
            /\ form.formData.record_type # ""
            /\ form'.last = "posted"
            /\ form'.loading
            /\ form'.sent.title = form.formData.title
            /\ form'.sent.record_type = form.formData.record_type
            /\ form'.sent.description = form.formData.description
            /\ form'.sent.file_size = form.selectedFile
            /\ form'.formData = form.formData
      /\ form'.last = "nouser" /\ form.last # "nouser" =>
            /\ form'.pending = form.pending
            /\ form'.sent = form.sent
            /\ form'.formData = form.formData
            /\ form'.selectedFile = form.selectedFile
            /\ ~form'.loading
      /\ form'.pending < form.pending =>
            /\ form'.last \in {"success", "failure"}
            /\ IF form'.last = "success"
               THEN form'.formData = NoFields /\ form'.selectedFile = NoNum
               ELSE form'.formData = form.formData /\ form'.selectedFile = form.selectedFile
      /\ form'.formData = NoFields /\ form.formData.title # "" /\ form.formData.record_type # "" =>
            form'.last = "success" /\ form'.pending < form.pending ]_vars

\* a POST with a file failed and the form still shows what was sent
C30_Witness ==
  /\ form.last = "failure"
  /\ form.sent # NoBody
  /\ form.formData.title = form.sent.title
  /\ form.formData.record_type = form.sent.record_type
  /\ form.selectedFile = form.sent.file_size
  /\ form.selectedFile # NoNum

====
